---- MODULE Spec2Model ----
(***************************************************************************)
(* A390393List.py: the meet-in-the-middle enumeration of the unit-sum      *)
(* subsets of {1/1 .. 1/(N-1)} ("obstructions") and the incremental        *)
(* minimum-hitting-set search that yields a(1) .. a(N-1).                  *)
(*                                                                         *)
(* Bitmasks are kept as natural numbers (bit d-1 <-> denominator d) and    *)
(* the bit operations of the source are computed arithmetically.  Python   *)
(* lists are sequences (index 0 of the source is index 1 here); tuples are *)
(* tuples; the NamedTuples HalfEntry and Match are records.                *)
(***************************************************************************)
EXTENDS Integers, Sequences, FiniteSets

VARIABLES
    pc,                 \* position of the program
    N,                  \* argument of A390393List
    left_list,          \* build_half_list(1, split)
    right_list,         \* build_half_list(split, N)
    i,                  \* stream_unit_matches: left pointer (0-based)
    j,                  \* stream_unit_matches: right pointer (0-based)
    matches,            \* the Matches yielded so far, in order
    buckets,            \* max_denom -> list of obstruction masks
    n,                  \* loop variable of the main loop
    current_obs_masks,  \* active obstructions
    current_k,          \* lower bound for the search
    results,            \* the list returned
    found_k,            \* found_k of the last search
    args,               \* arguments (and locals) of a directly called function
    ret                 \* its return value

vars == <<pc, N, left_list, right_list, i, j, matches, buckets, n,
          current_obs_masks, current_k, results, found_k, args, ret>>

\* ------------------------------------------------------------------
\* Bounds of the model

\* A390393List is called with N <= MaxN.
MaxN == 16

\* build_half_list is called with 1 <= lo <= MaxLo and hi <= lo + MaxSpan.
MaxLo == 8
MaxSpan == 7

\* stream_unit_matches is called on lists of at most MaxLen entries.
MaxLen == 3

\* stream_unit_matches is also called on lists in any order, of at most
\* MaxAnyLen entries.
MaxAnyLen == 3

\* exists_hitting_set is called on instances whose numbers of elements and
\* of obstructions add up to at most MaxSize, with a budget of at most
\* MaxBudget.
MaxSize == 6
MaxBudget == 4

\* With a solver that may report infeasibility, A390393List is called with
\* N <= MaxFaultN.
MaxFaultN == 6

\* With the split point chosen freely, A390393List is called with
\* N <= MaxSplitN.
MaxSplitN == 12

\* add_one_over_n is called on num/den with num <= MaxNum, den <= MaxDen and
\* a denominator n <= MaxStep.
MaxNum == 6
MaxDen == 6
MaxStep == 6

\* With the iteration order of elem_to_mask made explicit, exists_hitting_set
\* is called on instances whose numbers of elements and of obstructions add
\* up to at most MaxScanSize, with a budget of at most MaxScanBudget.
MaxScanSize == 5
MaxScanBudget == 2

\* Run step by step with its memo table, exists_hitting_set is called on
\* instances whose numbers of elements and of obstructions add up to at most
\* MaxMemoSize, with a budget of at most MaxMemoBudget.
MaxMemoSize == 5
MaxMemoBudget == 3

\* ------------------------------------------------------------------
\* Integer and bit helpers

Max(a, b) == IF a >= b THEN a ELSE b

\* math.gcd
RECURSIVE gcd(_, _)
gcd(a, b) == IF b = 0 THEN a ELSE gcd(b, a % b)

\* 1 << e
RECURSIVE Pow2(_)
Pow2(e) == IF e <= 0 THEN 1 ELSE 2 * Pow2(e - 1)

\* a | b
RECURSIVE BitOr(_, _)
BitOr(a, b) ==
    IF a = 0 THEN b
    ELSE IF b = 0 THEN a
    ELSE (IF a % 2 = 1 \/ b % 2 = 1 THEN 1 ELSE 0) + 2 * BitOr(a \div 2, b \div 2)

\* a & b
RECURSIVE BitAnd(_, _)
BitAnd(a, b) ==
    IF a = 0 \/ b = 0 THEN 0
    ELSE (IF a % 2 = 1 /\ b % 2 = 1 THEN 1 ELSE 0) + 2 * BitAnd(a \div 2, b \div 2)

\* a & ~b
RECURSIVE BitAndNot(_, _)
BitAndNot(a, b) ==
    IF a = 0 THEN 0
    ELSE (IF a % 2 = 1 /\ b % 2 = 0 THEN 1 ELSE 0) + 2 * BitAndNot(a \div 2, b \div 2)

\* int.bit_count
RECURSIVE bit_count(_)
bit_count(a) == IF a = 0 THEN 0 ELSE (a % 2) + bit_count(a \div 2)

\* int.bit_length
RECURSIVE bit_length(_)
bit_length(a) == IF a = 0 THEN 0 ELSE 1 + bit_length(a \div 2)

\* The denominators of the set bits of mask, as the loop
\* "while mask: lowbit = mask & -mask; denom = lowbit.bit_length(); mask &= mask - 1"
\* visits them.
MaskDenoms(mask) ==
    {d \in 1..bit_length(mask) : (mask \div Pow2(d - 1)) % 2 = 1}

\* ------------------------------------------------------------------
\* Utilities

\* Mutant of add_one_over_n: the division by the gcd is left out.
add_one_over_n_unreduced(pair, d) == <<pair[1] * d + pair[2], pair[2] * d>>

add_one_over_n(pair, d) ==
    LET num == pair[1]
        den == pair[2]
        nnum == num * d + den
        nden == den * d
        g == gcd(nnum, nden)
    IN <<nnum \div g, nden \div g>>

\* lhs = an * bd and rhs = bn * ad are unbounded integers in the source.  Both
\* are taken here divided by g = gcd(ad, bd) > 0, which leaves their order
\* unchanged and keeps them below lcm(ad, bd) for values <= 1.
rational_cmp(a, b) ==
    LET g == gcd(a[2], b[2])
        lhs == a[1] * (b[2] \div g)
        rhs == b[1] * (a[2] \div g)
    IN (IF lhs > rhs THEN 1 ELSE 0) - (IF lhs < rhs THEN 1 ELSE 0)

\* ------------------------------------------------------------------
\* build_half_list

HalfEntry(num, den, mask, max_denom) ==
    [num |-> num, den |-> den, mask |-> mask, max_denom |-> max_denom]

\* Mutant of FitsUnit: "<" for "<=", which drops the sums equal to 1.
FitsUnitStrict(new_pair) == new_pair[1] < new_pair[2]

\* The test "new_pair[0] <= new_pair[1]": the extended sum is at most 1.
FitsUnit(new_pair) == new_pair[1] <= new_pair[2]

\* Mutant of NewMask: bit n for bit n - 1.
NewMaskShifted(mask, d) == BitOr(mask, Pow2(d))

\* new_mask = mask | (1 << (n - 1))
NewMask(mask, d) == BitOr(mask, Pow2(d - 1))

\* Mutant of NewMax: curmax is kept.
NewMaxKept(curmax, d) == curmax

\* new_max = max(curmax, n)
NewMax(curmax, d) == Max(curmax, d)

\* The list "add" of one pass of the outer loop: every entry extended by 1/d
\* that stays <= 1, in the order of entries.
ExtendEntries(entries, d) ==
    LET keep == SelectSeq(entries, LAMBDA e : FitsUnit(add_one_over_n(e[1], d)))
    IN [x \in 1..Len(keep) |->
            <<add_one_over_n(keep[x][1], d), NewMask(keep[x][2], d), NewMax(keep[x][3], d)>>]

\* for n in range(lo, hi): ... entries.extend(add)
RECURSIVE BuildEntries(_, _, _)
BuildEntries(entries, d, hi) ==
    IF d >= hi THEN entries
    ELSE BuildEntries(entries \o ExtendEntries(entries, d), d + 1, hi)

\* Mutant of SortByValue: the sort is left out.
SortByValueOmitted(s) == s

\* list.sort with cmp_to_key(rational_cmp): the stable sort, i.e. the one
\* permutation that puts x before y when x < y, or when x = y and x came first.
SortByValue(s) ==
    LET before(x, y) ==
            LET c == rational_cmp(<<s[x].num, s[x].den>>, <<s[y].num, s[y].den>>)
            IN c < 0 \/ (c = 0 /\ x < y)
        ranked == {<<1 + Cardinality({x \in 1..Len(s) : before(x, y)}), y>> : y \in 1..Len(s)}
    IN [r \in 1..Len(s) |-> s[(CHOOSE p \in ranked : p[1] = r)[2]]]

build_half_list(lo, hi) ==
    LET entries == BuildEntries(<< <<<<0, 1>>, 0, 0>> >>, lo, hi)
        result == [x \in 1..Len(entries) |->
                       HalfEntry(entries[x][1][1], entries[x][1][2], entries[x][2], entries[x][3])]
    IN SortByValue(result)

\* ------------------------------------------------------------------
\* stream_unit_matches (pointers i, j are the 0-based indices of the source)

Match(mask, max_denom) == [mask |-> mask, max_denom |-> max_denom]

\* lhs = ln * rd + rn * ld
JoinLhs(l, r) == l.num * r.den + r.num * l.den

\* rhs = ld * rd
JoinRhs(l, r) == l.den * r.den

\* "a.num * ld != ln * a.den" is false: a has the value of the entry at i.
\* (Both products divided by gcd(ld, a.den) > 0, as in rational_cmp.)
SameLeftValue(a, l) ==
    LET g == gcd(l.den, a.den)
    IN a.num * (l.den \div g) = l.num * (a.den \div g)

\* "rn * b.den != b.num * rd" is false: b has the value of the entry at j.
\* (Both products divided by gcd(rd, b.den) > 0, as in rational_cmp.)
SameRightValue(b, r) ==
    LET g == gcd(r.den, b.den)
    IN r.num * (b.den \div g) = b.num * (r.den \div g)

\* val_i after "while val_i < len(left_list)": the end of the run of entries
\* from i on that have the value of left_list[i].
RECURSIVE LeftRunScan(_, _, _)
LeftRunScan(left, at, val_i) ==
    IF val_i < Len(left) /\ SameLeftValue(left[val_i + 1], left[at + 1])
    THEN LeftRunScan(left, at, val_i + 1)
    ELSE val_i

\* Mutant of LeftRunEnd: the scan of the left run does not advance.
LeftRunEndStuck(left, at) == at

LeftRunEnd(left, at) == LeftRunScan(left, at, at)

\* val_j after "while val_j >= 0": the end of the run of entries from j down
\* that have the value of right_list[j].
RECURSIVE RightRunScan(_, _, _)
RightRunScan(right, at, val_j) ==
    IF val_j >= 0 /\ SameRightValue(right[val_j + 1], right[at + 1])
    THEN RightRunScan(right, at, val_j - 1)
    ELSE val_j

\* Mutant of RightRunEnd: the run of equal values on the right is not
\* collected, only the entry at j is matched.
RightRunEndOne(right, at) == at - 1

RightRunEnd(right, at) == RightRunScan(right, at, at)

\* Mutant of MatchOf: the max_denom of the left entry alone.
MatchOfLeftMax(a, b) == Match(BitOr(a.mask, b.mask), a.max_denom)

\* Match(a.mask | b.mask, max(a.max_denom, b.max_denom))
MatchOf(a, b) == Match(BitOr(a.mask, b.mask), Max(a.max_denom, b.max_denom))

\* "for a in left_eq: for b in right_eq: yield ...": left_eq is
\* left[i .. val_i - 1] ascending, right_eq is right[j .. val_j + 1] descending.
YieldRun(left, right, at_i, val_i, at_j, val_j) ==
    LET nl == val_i - at_i
        nr == at_j - val_j
    IN [t \in 1..(nl * nr) |->
            MatchOf(left[at_i + 1 + ((t - 1) \div nr)], right[at_j + 1 - ((t - 1) % nr)])]

\* buckets[match.max_denom].append(match.mask) on a defaultdict(list)
BucketAppend(b, m) ==
    [key \in DOMAIN b \cup {m.max_denom} |->
        IF key = m.max_denom
        THEN (IF key \in DOMAIN b THEN Append(b[key], m.mask) ELSE <<m.mask>>)
        ELSE b[key]]

RECURSIVE BucketAll(_, _, _)
BucketAll(b, ms, from) ==
    IF from > Len(ms) THEN b ELSE BucketAll(BucketAppend(b, ms[from]), ms, from + 1)

\* ------------------------------------------------------------------
\* exists_hitting_set

\* Mutant of LowerBound: floor + 1 for ceil.
LowerBoundFloor(rem, max_cov) == (rem \div max_cov) + 1

\* math.ceil(rem / max_cov)
LowerBound(rem, max_cov) == (rem + max_cov - 1) \div max_cov

\* Mutant of Pruned: "<" for ">".
PrunedBelow(rem, max_cov, k) == ((rem + max_cov - 1) \div max_cov) < k

\* Mutant of Pruned: ">=" for ">".
PrunedAtBound(rem, max_cov, k) == ((rem + max_cov - 1) \div max_cov) >= k

\* "if math.ceil(rem / max_cov) > k: return False"
Pruned(rem, max_cov, k) == LowerBound(rem, max_cov) > k

\* candidates after candidates.sort(reverse=True): the pairs (c, cov) of the
\* elements with cov != 0, in descending lexicographic order.  Equal pairs are
\* indistinguishable, so the order of elem_to_mask.values() leaves no trace.
Candidates(elem_to_mask, remaining_mask) ==
    LET covs == {<<BitAnd(elem_to_mask[e], remaining_mask), e>> : e \in DOMAIN elem_to_mask}
        \* (c, cov) of each element with cov != 0, with the element to keep
        \* equal pairs of different elements apart
        cands == {<<bit_count(p[1]), p[1], p[2]>> : p \in {q \in covs : q[1] # 0}}
        before(x, y) ==
            \/ x[1] > y[1]
            \/ x[1] = y[1] /\ x[2] > y[2]
            \/ x[1] = y[1] /\ x[2] = y[2] /\ x[3] < y[3]
        ranked == {<<1 + Cardinality({x \in cands : before(x, y)}), y>> : y \in cands}
    IN [r \in 1..Cardinality(cands) |->
            LET p == (CHOOSE q \in ranked : q[1] = r)[2] IN <<p[1], p[2]>>]

\* max_cov: candidates are sorted descending, and max_cov starts at 0.
MaxCov(candidates) == IF candidates = <<>> THEN 0 ELSE candidates[1][1]

RECURSIVE solve(_, _, _)
solve(elem_to_mask, remaining_mask, k) ==
    IF remaining_mask = 0 THEN TRUE
    ELSE IF k = 0 THEN FALSE
    ELSE LET rem == bit_count(remaining_mask)
             candidates == Candidates(elem_to_mask, remaining_mask)
             max_cov == MaxCov(candidates)
         IN IF max_cov = 0 THEN FALSE
            ELSE IF Pruned(rem, max_cov, k) THEN FALSE
            ELSE \E x \in 1..Len(candidates) :
                    solve(elem_to_mask, BitAndNot(remaining_mask, candidates[x][2]), k - 1)

exists_hitting_set(elem_to_mask, num_obs, permitted) ==
    solve(elem_to_mask, Pow2(num_obs) - 1, permitted)

\* ------------------------------------------------------------------
\* A390393List

\* found_k = None
NoneK == -1

\* split = N * 5 // 9
Split(bound) == (bound * 5) \div 9

\* Mutant of Eligible: "<" for "<=".
EligibleBelow(denom, nn) == denom < nn

\* Mutant of RightLo: the right half starts one above the split.
RightLoNext(split) == split + 1

\* "build_half_list(split, N)": the right half starts where the left ends.
RightLo(split) == split

\* "if denom <= n"
Eligible(denom, nn) == denom <= nn

\* elem_to_mask[denom] after the loop over enumerate(current_obs_masks):
\* bit idx is set for every obstruction idx that holds denom.
\* Mutant of CoverOf: "1 << (idx + 1)" for "1 << idx".
RECURSIVE CoverOfShifted(_, _, _)
CoverOfShifted(obs, denom, upto) ==
    IF upto = 0 THEN 0
    ELSE IF denom \in MaskDenoms(obs[upto])
         THEN BitOr(CoverOfShifted(obs, denom, upto - 1), Pow2(upto))
         ELSE CoverOfShifted(obs, denom, upto - 1)

RECURSIVE CoverOf(_, _, _)
CoverOf(obs, denom, upto) ==
    IF upto = 0 THEN 0
    ELSE IF denom \in MaskDenoms(obs[upto])
         THEN BitOr(CoverOf(obs, denom, upto - 1), Pow2(upto - 1))
         ELSE CoverOf(obs, denom, upto - 1)

ElemToMask(obs, nn) ==
    LET denoms == {d \in UNION {MaskDenoms(obs[x]) : x \in 1..Len(obs)} : Eligible(d, nn)}
    IN [d \in denoms |-> CoverOf(obs, d, Len(obs))]

\* Mutant of InRange: range(1, N + 1).
InRangeInclusive(nn, bound) == nn <= bound

\* "for n in range(1, N)": n is still in the range
InRange(nn, bound) == nn < bound

\* Mutant of SearchStart: the search starts one above the previous k.
SearchStartNext(k0) == k0 + 1

\* range(current_k, n + 1) starts at current_k
SearchStart(k0) == k0

\* "for k in range(current_k, n + 1): if exists_hitting_set(...): found_k = k; break":
\* the first k in from..upto with answer[k], None when there is none.
RECURSIVE FirstFeasible(_, _, _)
FirstFeasible(answer, from, upto) ==
    IF from > upto THEN NoneK
    ELSE IF answer[from] THEN from
    ELSE FirstFeasible(answer, from + 1, upto)

\* Mutant of Emitted: "k - n" for "n - k".
EmittedReversed(nn, k) == k - nn

\* The value appended when the search found k.
Emitted(nn, k) == nn - k

\* ------------------------------------------------------------------
\* The program: A390393List(N)

Idle == <<>>

InitProgram ==
    /\ pc = "start"
    /\ N \in -1..MaxN
    /\ left_list = <<>>
    /\ right_list = <<>>
    /\ i = 0
    /\ j = 0
    /\ matches = <<>>
    /\ buckets = <<>>
    /\ n = 0
    /\ current_obs_masks = <<>>
    /\ current_k = 0
    /\ results = <<>>
    /\ found_k = NoneK
    /\ args = Idle
    /\ ret = Idle

\* "if N <= 1: return []"
ReturnEmpty ==
    /\ pc = "start"
    /\ N <= 1
    /\ pc' = "done"
    /\ results' = <<>>
    /\ UNCHANGED <<N, left_list, right_list, i, j, matches, buckets, n,
                   current_obs_masks, current_k, found_k, args, ret>>

\* The two half lists, and the generator's "i = 0; j = len(right_list) - 1".
BuildHalfLists ==
    /\ pc = "start"
    /\ N > 1
    /\ left_list' = build_half_list(1, Split(N))
    /\ right_list' = build_half_list(Split(N), N)
    /\ i' = 0
    /\ j' = Len(right_list') - 1
    /\ pc' = "join"
    /\ UNCHANGED <<N, matches, buckets, n, current_obs_masks, current_k,
                   results, found_k, args, ret>>

\* One pass of "while i < len(left_list) and j >= 0": a run of matches is
\* yielded and bucketed by the consuming for loop, or one pointer moves.
JoinStep ==
    /\ pc = "join"
    /\ i < Len(left_list) /\ j >= 0
    /\ LET l == left_list[i + 1]
           r == right_list[j + 1]
           lhs == JoinLhs(l, r)
           rhs == JoinRhs(l, r)
       IN IF lhs = rhs
          THEN LET val_i == LeftRunEnd(left_list, i)
                   val_j == RightRunEnd(right_list, j)
                   out == YieldRun(left_list, right_list, i, val_i, j, val_j)
               IN /\ matches' = matches \o out
                  /\ buckets' = BucketAll(buckets, out, 1)
                  /\ i' = val_i
                  /\ j' = val_j
          ELSE IF lhs < rhs
          THEN /\ i' = i + 1
               /\ UNCHANGED <<j, matches, buckets>>
          ELSE /\ j' = j - 1
               /\ UNCHANGED <<i, matches, buckets>>
    /\ UNCHANGED <<pc, N, left_list, right_list, n, current_obs_masks,
                   current_k, results, found_k, args, ret>>

\* The generator is exhausted; "results = []; current_obs_masks = [];
\* current_k = 0" and the main loop starts at n = 1.
JoinExit ==
    /\ pc = "join"
    /\ ~(i < Len(left_list) /\ j >= 0)
    /\ pc' = "loop"
    /\ n' = 1
    /\ results' = <<>>
    /\ current_obs_masks' = <<>>
    /\ current_k' = 0
    /\ UNCHANGED <<N, left_list, right_list, i, j, matches, buckets,
                   found_k, args, ret>>

\* One pass of "for n in range(1, N)".  The solver's answer is that of
\* exists_hitting_set, except at the budgets in refused, where it is False
\* (refused is empty in the program itself).
LoopIteration(refused) ==
    /\ pc = "loop"
    /\ InRange(n, N)
    /\ LET obs == IF n \in DOMAIN buckets
                  THEN current_obs_masks \o buckets[n]
                  ELSE current_obs_masks
       IN /\ current_obs_masks' = obs
          /\ IF obs = <<>>
             THEN /\ results' = Append(results, n)
                  /\ current_k' = 0
                  /\ found_k' = found_k
             ELSE LET m == Len(obs)
                      elem_to_mask == ElemToMask(obs, n)
                      answer == [k \in SearchStart(current_k)..n |->
                                    k \notin refused /\ exists_hitting_set(elem_to_mask, m, k)]
                      k == FirstFeasible(answer, SearchStart(current_k), n)
                  IN /\ found_k' = k
                     /\ IF k # NoneK
                        THEN /\ current_k' = k
                             /\ results' = Append(results, Emitted(n, k))
                        ELSE /\ results' = Append(results, 0)
                             /\ current_k' = n
    /\ n' = n + 1
    /\ UNCHANGED <<pc, N, left_list, right_list, i, j, matches, buckets, args, ret>>

LoopStep == LoopIteration({})

\* "return results"
LoopExit ==
    /\ pc = "loop"
    /\ ~InRange(n, N)
    /\ pc' = "done"
    /\ UNCHANGED <<N, left_list, right_list, i, j, matches, buckets, n,
                   current_obs_masks, current_k, results, found_k, args, ret>>

Next ==
    \/ ReturnEmpty
    \/ BuildHalfLists
    \/ JoinStep
    \/ JoinExit
    \/ LoopStep
    \/ LoopExit

Init == InitProgram

Spec == Init /\ [][Next]_vars

\* ------------------------------------------------------------------
\* Reference definitions, independent of the program's arithmetic

RECURSIVE LcmUpTo(_)
LcmUpTo(d) == IF d <= 1 THEN 1 ELSE LET l == LcmUpTo(d - 1) IN (l * d) \div gcd(l, d)

\* The sum of 1/d over the members d <= upto of D, times scale (a common
\* multiple of 1..upto).
RECURSIVE ScaledSum(_, _, _)
ScaledSum(D, scale, upto) ==
    IF upto <= 0 THEN 0
    ELSE (IF upto \in D THEN scale \div upto ELSE 0) + ScaledSum(D, scale, upto - 1)

\* The subsets of 1..nn whose reciprocals sum to 1 (enumerated once).
UnitSubsetsAt(nn, scale) ==
    {S : S \in {T \in SUBSET (1..nn) : ScaledSum(T, scale, nn) = scale}}

UnitSubsets(nn) == UnitSubsetsAt(nn, LcmUpTo(nn))

MinOf(S) == CHOOSE c \in S : \A y \in S : c <= y

\* The sizes of the subsets of 1..nn that meet every set of obstructions.
HittingSizes(obstructions, nn) ==
    {Cardinality(H) : H \in {G \in SUBSET (1..nn) : \A S \in obstructions : G \cap S # {}}}

\* The least size of a subset of 1..nn that meets every unit subset of 1..nn.
MinHittingSize(nn) == MinOf(HittingSizes(UnitSubsets(nn), nn))

\* The mask of a set of denominators.
RECURSIVE MaskOf(_)
MaskOf(D) ==
    IF D = {} THEN 0
    ELSE LET d == CHOOSE x \in D : TRUE IN Pow2(d - 1) + MaskOf(D \ {d})

\* ------------------------------------------------------------------
\* Claims about A390393List, under Spec

\* a(1..50) as printed at the end of A390393List.py
Expected ==
    <<0, 1, 2, 3, 4, 4, 5, 6, 7, 8, 9, 10, 11, 12, 12, 13, 14, 15, 16, 16,
      17, 18, 19, 19, 20, 21, 22, 22, 23, 24, 25, 26, 26, 27, 28, 29, 30, 31,
      32, 33, 34, 34, 35, 36, 37, 38, 39, 40, 41, 42>>

C2_SearchFindsMinimum ==
    (pc \in {"loop", "done"} /\ n > 1) =>
        /\ found_k = MinHittingSize(n - 1)
        /\ results[n - 1] = (n - 1) - MinHittingSize(n - 1)

\* The search started at a positive k0, failed there, and went up.
C2_Witness ==
    /\ pc = "loop"
    /\ n > 2
    /\ (n - 2) - results[n - 2] > 0
    /\ found_k > (n - 2) - results[n - 2]

\* C3: N <= 1 returns the empty list, N = 2 returns [0], and N >= 2 returns
\* N - 1 integers, one appended per pass of the loop.
C3_ResultLength ==
    /\ (pc = "done" /\ N <= 1) => results = <<>>
    /\ (pc = "done" /\ N = 2) => results = <<0>>
    /\ (pc = "done" /\ N >= 2) =>
          (Len(results) = N - 1 /\ \A x \in 1..Len(results) : results[x] \in Int)
    /\ pc = "loop" => Len(results) = n - 1

C3_Witness ==
    /\ pc = "done"
    /\ N > 2
    /\ Len(results) = N - 1

\* ------------------------------------------------------------------
\* build_half_list called directly on a range [lo, hi)

Quiet ==
    /\ N = 0
    /\ left_list = <<>>
    /\ right_list = <<>>
    /\ i = 0
    /\ j = 0
    /\ matches = <<>>
    /\ buckets = <<>>
    /\ n = 0
    /\ current_obs_masks = <<>>
    /\ current_k = 0
    /\ results = <<>>
    /\ found_k = NoneK

InitBuild ==
    /\ pc = "call_build"
    /\ \E lo \in 1..MaxLo : \E hi \in 0..(lo + MaxSpan) : args = <<lo, hi>>
    /\ ret = Idle
    /\ Quiet

CallBuildHalfList ==
    /\ pc = "call_build"
    /\ ret' = build_half_list(args[1], args[2])
    /\ pc' = "returned"
    /\ UNCHANGED <<N, left_list, right_list, i, j, matches, buckets, n,
                   current_obs_masks, current_k, results, found_k, args>>

SpecBuild == InitBuild /\ [][CallBuildHalfList]_vars

\* The denominators lo .. hi-1 of the call, and a common multiple of them.
BuildRange == args[1]..(args[2] - 1)
BuildScale == LcmUpTo(args[2] - 1)

MaxOf(S) == CHOOSE c \in S : \A y \in S : c >= y

\* C7: every entry returned by build_half_list(lo, hi) has num/den equal to
\* the sum of 1/d over the denominators of its mask, these lie in [lo, hi),
\* num/den <= 1, the mask has as many bits as denominators, and max_denom is
\* the largest of them (0 for the empty subset).
C7_EntriesExact ==
    pc = "returned" =>
        \A x \in 1..Len(ret) :
            LET e == ret[x]
                D == MaskDenoms(e.mask)
            IN /\ e.den > 0
               /\ BuildScale % e.den = 0
               /\ e.num * (BuildScale \div e.den) = ScaledSum(D, BuildScale, args[2] - 1)
               /\ D \subseteq BuildRange
               /\ MaskOf(D) = e.mask
               /\ e.num <= e.den
               /\ bit_count(e.mask) = Cardinality(D)
               /\ e.max_denom = (IF D = {} THEN 0 ELSE MaxOf(D))

C7_Witness ==
    /\ pc = "returned"
    /\ args[1] >= 2
    /\ \E x \in 1..Len(ret) : bit_count(ret[x].mask) >= 3 /\ ret[x].num < ret[x].den

\* The masks of the subsets of [lo, hi) whose reciprocals sum to at most 1.
FeasibleMasks ==
    {MaskOf(S) : S \in {T \in SUBSET BuildRange :
                          ScaledSum(T, BuildScale, args[2] - 1) <= BuildScale}}

\* C8: build_half_list(lo, hi) returns one entry for each subset of [lo, hi)
\* with reciprocal sum <= 1 and no other entry, in non-decreasing order of
\* num/den.
C8_AllSubsetsSorted ==
    pc = "returned" =>
        /\ {ret[x].mask : x \in 1..Len(ret)} = FeasibleMasks
        /\ Len(ret) = Cardinality(FeasibleMasks)
        /\ \A x \in 1..Len(ret) : ret[x].den > 0 /\ BuildScale % ret[x].den = 0
        /\ \A x \in 1..(Len(ret) - 1) :
              ret[x].num * (BuildScale \div ret[x].den)
                  <= ret[x + 1].num * (BuildScale \div ret[x + 1].den)

\* A call that drops a subset (sum > 1), keeps one of sum exactly 1, and
\* returns an order that differs from the order of construction.
C8_Witness ==
    /\ pc = "returned"
    /\ Len(ret) < Pow2(Cardinality(BuildRange))
    /\ \E x \in 1..Len(ret) : ret[x].num = ret[x].den
    /\ \E x \in 1..(Len(ret) - 1) : ret[x].mask > ret[x + 1].mask

\* ------------------------------------------------------------------
\* Claims about the matches yielded in A390393List, under Spec

\* C5: every Match yielded on the two half lists of A390393List has a mask
\* whose denominators (bit d-1 <-> d) have reciprocals summing to exactly 1,
\* and its max_denom is the denominator of the highest set bit, never 0.
C5_MatchesAreUnitSums ==
    \A x \in 1..Len(matches) :
        LET m == matches[x]
            D == MaskDenoms(m.mask)
            scale == LcmUpTo(N - 1)
        IN /\ D \subseteq 1..(N - 1)
           /\ MaskOf(D) = m.mask
           /\ ScaledSum(D, scale, N - 1) = scale
           /\ m.max_denom # 0
           /\ m.max_denom = bit_length(m.mask)
           /\ m.max_denom = MaxOf(D)

\* A match whose denominators come from both half lists.
C5_Witness ==
    \E x \in 1..Len(matches) :
        /\ bit_count(matches[x].mask) >= 4
        /\ \E d \in MaskDenoms(matches[x].mask) : d < Split(N)
        /\ \E d \in MaskDenoms(matches[x].mask) : d >= Split(N)

\* ------------------------------------------------------------------
\* stream_unit_matches called directly on two sorted lists

\* Values of the entries of a directly built list; 1/2 occurs in two forms.
Vals == {<<0, 1>>, <<1, 3>>, <<1, 2>>, <<2, 4>>, <<2, 3>>, <<1, 1>>}

\* The lists of at most MaxLen values in non-decreasing order.
SortedValueLists ==
    {s \in UNION {[1..len -> Vals] : len \in 0..MaxLen} :
        \A x \in 1..(Len(s) - 1) : s[x][1] * s[x + 1][2] <= s[x + 1][1] * s[x][2]}

\* Entry x of a list carries bit (offset + x - 1), so that the mask of a
\* match names the pair of entries it was made from.
EntriesOf(s, offset) ==
    [x \in 1..Len(s) |-> HalfEntry(s[x][1], s[x][2], Pow2(offset + x - 1), offset + x)]

InitJoinLists ==
    /\ pc = "join"
    /\ N = 0
    /\ \E s \in SortedValueLists : left_list = EntriesOf(s, 0)
    /\ \E s \in SortedValueLists : right_list = EntriesOf(s, MaxLen)
    /\ i = 0
    /\ j = Len(right_list) - 1
    /\ matches = <<>>
    /\ buckets = <<>>
    /\ n = 0
    /\ current_obs_masks = <<>>
    /\ current_k = 0
    /\ results = <<>>
    /\ found_k = NoneK
    /\ args = Idle
    /\ ret = Idle

\* The half lists of A390393List(N), as BuildHalfLists leaves them.
InitJoinBuilt ==
    /\ pc = "join"
    /\ N \in 2..MaxN
    /\ left_list = build_half_list(1, Split(N))
    /\ right_list = build_half_list(Split(N), N)
    /\ i = 0
    /\ j = Len(right_list) - 1
    /\ matches = <<>>
    /\ buckets = <<>>
    /\ n = 0
    /\ current_obs_masks = <<>>
    /\ current_k = 0
    /\ results = <<>>
    /\ found_k = NoneK
    /\ args = Idle
    /\ ret = Idle

InitJoin == InitJoinLists \/ InitJoinBuilt

NextJoin == JoinStep \/ JoinExit

SpecJoin == InitJoin /\ [][NextJoin]_vars

\* The index pairs whose values add up to 1.
UnitPairs ==
    {pq \in (1..Len(left_list)) \X (1..Len(right_list)) :
        LET l == left_list[pq[1]]
            r == right_list[pq[2]]
        IN l.num * r.den + r.num * l.den = l.den * r.den}

\* C6: when the generator is exhausted it has yielded exactly one Match for
\* each index pair whose values add up to 1 and no other Match; on the half
\* lists of A390393List(N) the masks yielded are those of the subsets of
\* 1..N-1 whose reciprocals sum to 1, each once.
C6_OneMatchPerUnitPair ==
    pc = "loop" =>
        /\ Len(matches) = Cardinality(UnitPairs)
        /\ \A pq \in UnitPairs :
              LET a == left_list[pq[1]]
                  b == right_list[pq[2]]
                  expected == [mask |-> a.mask + b.mask,
                               max_denom |-> IF a.max_denom >= b.max_denom
                                             THEN a.max_denom ELSE b.max_denom]
              IN Cardinality({x \in 1..Len(matches) : matches[x] = expected}) = 1
        /\ N >= 2 =>
              /\ {matches[x].mask : x \in 1..Len(matches)}
                    = {MaskOf(S) : S \in UnitSubsets(N - 1)}
              /\ Len(matches) = Cardinality(UnitSubsets(N - 1))

\* Runs of equal values on both sides (a cross product of four matches) and
\* a further match, on directly built lists.
C6_Witness ==
    /\ pc = "loop"
    /\ N = 0
    /\ Len(matches) >= 5

\* ------------------------------------------------------------------
\* exists_hitting_set called directly on an instance

InitSolver ==
    /\ pc = "call_solver"
    /\ \E num_obs \in 0..MaxSize : \E elems \in 0..(MaxSize - num_obs) : \E permitted \in 0..MaxBudget :
         \E elem_to_mask \in [1..elems -> 0..(Pow2(num_obs) - 1)] :
            args = [elem_to_mask |-> elem_to_mask, num_obs |-> num_obs, permitted |-> permitted]
    /\ ret = Idle
    /\ Quiet

CallExistsHittingSet ==
    /\ pc = "call_solver"
    /\ ret' = exists_hitting_set(args.elem_to_mask, args.num_obs, args.permitted)
    /\ pc' = "returned"
    /\ UNCHANGED <<N, left_list, right_list, i, j, matches, buckets, n,
                   current_obs_masks, current_k, results, found_k, args>>

SpecSolver == InitSolver /\ [][CallExistsHittingSet]_vars

\* The obstructions (bits 0 .. num_obs-1) that the elements of H cover.
CoveredBy(elem_to_mask, H, num_obs) ==
    {b \in 0..(num_obs - 1) : \E e \in H : (elem_to_mask[e] \div Pow2(b)) % 2 = 1}

\* Some set of at most k elements covers every obstruction.
BruteForceHittingSet(elem_to_mask, num_obs, k) ==
    \E H \in SUBSET (DOMAIN elem_to_mask) :
        /\ Cardinality(H) <= k
        /\ CoveredBy(elem_to_mask, H, num_obs) = 0..(num_obs - 1)

\* C9: exists_hitting_set returns True exactly when some set of at most k
\* elements covers all num_obs obstructions, as found by enumerating every
\* set of elements.
C9_SolverIsExact ==
    pc = "returned" =>
        ret = BruteForceHittingSet(args.elem_to_mask, args.num_obs, args.permitted)

\* A feasible call that needs its whole budget of at least two elements.
C9_Witness ==
    /\ pc = "returned"
    /\ ret = TRUE
    /\ args.permitted >= 2
    /\ ~BruteForceHittingSet(args.elem_to_mask, args.num_obs, args.permitted - 1)

\* C10: a call that returns True at budget k returns True at every budget
\* k' >= k on the same instance.
C10_MonotoneInBudget ==
    (pc = "returned" /\ ret = TRUE) =>
        \A k2 \in args.permitted..(MaxBudget + 1) :
            exists_hitting_set(args.elem_to_mask, args.num_obs, k2)

\* A feasible call with obstructions to cover and larger budgets to try.
C10_Witness ==
    /\ pc = "returned"
    /\ ret = TRUE
    /\ args.num_obs >= 2
    /\ args.permitted >= 1
    /\ args.permitted < MaxBudget

\* ------------------------------------------------------------------
\* A390393List with a solver that may report infeasibility

InitFault ==
    /\ InitProgram
    /\ N <= MaxFaultN

\* One pass of the loop in which the solver may report infeasibility at
\* every budget of the search.
LoopStepFault ==
    \E refused \in {{}, 0..MaxFaultN} : LoopIteration(refused)

NextFault ==
    \/ ReturnEmpty
    \/ BuildHalfLists
    \/ JoinStep
    \/ JoinExit
    \/ LoopStepFault
    \/ LoopExit

SpecFault == InitFault /\ [][NextFault]_vars

\* The pass for n - 1 had active obstructions and its search found no k.
SearchFailed ==
    /\ pc \in {"loop", "done"}
    /\ n > 1
    /\ current_obs_masks # <<>>
    /\ found_k = NoneK

\* C4: when the solver reports infeasibility for every budget in
\* [current_k, n], the computation aborts and nothing (in particular no 0) is
\* appended for that n.
C4_InfeasibleIsFatal ==
    SearchFailed => (pc = "aborted" /\ Len(results) < n - 1)

\* ------------------------------------------------------------------
\* add_one_over_n called directly on a fraction in lowest terms

InitAdd ==
    /\ pc = "call_add"
    /\ \E num \in 0..MaxNum : \E den \in 1..MaxDen : \E d \in 1..MaxStep :
          /\ gcd(num, den) = 1
          /\ args = <<<<num, den>>, d>>
    /\ ret = Idle
    /\ Quiet

CallAddOneOverN ==
    /\ pc = "call_add"
    /\ ret' = add_one_over_n(args[1], args[2])
    /\ pc' = "returned"
    /\ UNCHANGED <<N, left_list, right_list, i, j, matches, buckets, n,
                   current_obs_masks, current_k, results, found_k, args>>

SpecAdd == InitAdd /\ [][CallAddOneOverN]_vars

\* C11: for num/den in lowest terms (den > 0, num >= 0) and a denominator
\* d >= 1, add_one_over_n returns (p, q) with q > 0, gcd(p, q) = 1 and
\* p * den * d = q * (num * d + den): the reduced fraction num/den + 1/d.
C11_ReducedExactSum ==
    pc = "returned" =>
        LET num == args[1][1]
            den == args[1][2]
            d == args[2]
            p == ret[1]
            q == ret[2]
        IN /\ q > 0
           /\ gcd(p, q) = 1
           /\ p * den * d = q * (num * d + den)

\* A call in which the gcd is not 1 (1/2 + 1/2, 1/6 + 1/3, ...).
C11_Witness ==
    /\ pc = "returned"
    /\ args[1][1] > 0
    /\ ret[2] < args[1][2] * args[2]

\* ------------------------------------------------------------------
\* exists_hitting_set with the iteration order of elem_to_mask made explicit

\* The orders in which a dict with the keys S can be iterated.
Orders(S) ==
    {o \in [1..Cardinality(S) -> S] : \A x, y \in 1..Cardinality(S) : o[x] = o[y] => x = y}

\* "for mask in elem_to_mask.values(): cov = mask & remaining_mask; if cov:
\* candidates.append((c, cov))": the list candidates before the sort, when
\* the values are visited in the order of the keys in order.
ScanCandidates(order, elem_to_mask, remaining_mask) ==
    LET all == [x \in 1..Len(order) |->
                    LET cov == BitAnd(elem_to_mask[order[x]], remaining_mask)
                    IN <<bit_count(cov), cov>>]
    IN SelectSeq(all, LAMBDA p : p[2] # 0)

\* Mutant of ScanMaxCov: "max_cov = c" for "max_cov = max(max_cov, c)".
ScanMaxCovLast(cands) == IF cands = <<>> THEN 0 ELSE cands[Len(cands)][1]

\* max_cov after the scan: "max_cov = 0; ... max_cov = max(max_cov, c)"
RECURSIVE ScanMaxCovUpTo(_, _)
ScanMaxCovUpTo(cands, upto) ==
    IF upto = 0 THEN 0 ELSE Max(ScanMaxCovUpTo(cands, upto - 1), cands[upto][1])

ScanMaxCov(cands) == ScanMaxCovUpTo(cands, Len(cands))

\* A stable sort of cands in which x goes before y when above(x, y): the
\* position of each entry is 1 + the number of entries that go before it.
\* by_tuple: descending on (c, cov), as candidates.sort(reverse=True) does;
\* otherwise descending on c alone, equal-coverage candidates staying in the
\* order of the scan.
SortCandidates(cands, by_tuple) ==
    LET above(x, y) ==
            \/ cands[x][1] > cands[y][1]
            \/ by_tuple /\ cands[x][1] = cands[y][1] /\ cands[x][2] > cands[y][2]
        tie(x, y) ==
            /\ cands[x][1] = cands[y][1]
            /\ by_tuple => cands[x][2] = cands[y][2]
        before(x, y) == above(x, y) \/ (tie(x, y) /\ x < y)
        ranked == {<<1 + Cardinality({x \in 1..Len(cands) : before(x, y)}), y>> :
                        y \in 1..Len(cands)}
    IN [r \in 1..Len(cands) |-> cands[(CHOOSE p \in ranked : p[1] = r)[2]]]

\* solve, with the scan in the order given and the loop over the sorted
\* candidates run in sequence: "for _, covmask in candidates: if solve(...):
\* return True" followed by "return False".
RECURSIVE solve_scan(_, _, _, _, _)
RECURSIVE TryCandidates(_, _, _, _, _, _, _)
TryCandidates(order, by_tuple, elem_to_mask, remaining_mask, k, candidates, from) ==
    IF from > Len(candidates) THEN FALSE
    ELSE IF solve_scan(order, by_tuple, elem_to_mask,
                       BitAndNot(remaining_mask, candidates[from][2]), k - 1)
    THEN TRUE
    ELSE TryCandidates(order, by_tuple, elem_to_mask, remaining_mask, k, candidates, from + 1)

solve_scan(order, by_tuple, elem_to_mask, remaining_mask, k) ==
    IF remaining_mask = 0 THEN TRUE
    ELSE IF k = 0 THEN FALSE
    ELSE LET rem == bit_count(remaining_mask)
             scanned == ScanCandidates(order, elem_to_mask, remaining_mask)
             max_cov == ScanMaxCov(scanned)
         IN IF max_cov = 0 THEN FALSE
            ELSE IF Pruned(rem, max_cov, k) THEN FALSE
            ELSE TryCandidates(order, by_tuple, elem_to_mask, remaining_mask, k,
                               SortCandidates(scanned, by_tuple), 1)

\* The members of a set of integers in ascending order.
Ascending(S) ==
    [r \in 1..Cardinality(S) |-> CHOOSE d \in S : Cardinality({e \in S : e < d}) = r - 1]

InitScan ==
    /\ pc = "call_solver"
    /\ \E num_obs \in 0..MaxScanSize : \E elems \in 0..(MaxScanSize - num_obs) :
         \E permitted \in 0..MaxScanBudget :
         \E elem_to_mask \in [1..elems -> 0..(Pow2(num_obs) - 1)] :
         \E order \in Orders(1..elems) : \E by_tuple \in BOOLEAN :
            args = [elem_to_mask |-> elem_to_mask, num_obs |-> num_obs,
                    permitted |-> permitted, order |-> order, by_tuple |-> by_tuple]
    /\ ret = Idle
    /\ Quiet

CallExistsHittingSetScan ==
    /\ pc = "call_solver"
    /\ ret' = solve_scan(args.order, args.by_tuple, args.elem_to_mask,
                         Pow2(args.num_obs) - 1, args.permitted)
    /\ pc' = "returned"
    /\ UNCHANGED <<N, left_list, right_list, i, j, matches, buckets, n,
                   current_obs_masks, current_k, results, found_k, args>>

\* The keys of elem_to_mask in the order in which "for idx, obs_mask in
\* enumerate(current_obs_masks): while mask: ..." inserts them: obstruction by
\* obstruction, lowest bit first, a key keeping its first position.
RECURSIVE InsertedKeys(_, _, _, _)
InsertedKeys(obs, nn, idx, keys) ==
    IF idx > Len(obs) THEN keys
    ELSE LET seen == {keys[x] : x \in 1..Len(keys)}
             new == {d \in MaskDenoms(obs[idx]) : Eligible(d, nn) /\ d \notin seen}
         IN InsertedKeys(obs, nn, idx + 1, keys \o Ascending(new))

\* The order of insertion, which is the order dict.values() follows, and
\* the other orders tried in its place: its rotations and their reversals.
ScanOrders(obs, nn) ==
    LET o == InsertedKeys(obs, nn, 1, <<>>)
        len == Len(o)
        rotated(by) == [x \in 1..len |-> o[((x - 1 + by) % len) + 1]]
        reversed(q) == [x \in 1..len |-> q[len + 1 - x]]
    IN {rotated(by) : by \in 0..(len - 1)} \cup {reversed(rotated(by)) : by \in 0..(len - 1)}

\* One pass of "for n in range(1, N)" in which the solver scans elem_to_mask
\* in any of the orders of ScanOrders and tries candidates of equal coverage
\* in either order.
LoopStepScan ==
    /\ pc = "loop"
    /\ InRange(n, N)
    /\ LET obs == IF n \in DOMAIN buckets
                  THEN current_obs_masks \o buckets[n]
                  ELSE current_obs_masks
       IN /\ current_obs_masks' = obs
          /\ IF obs = <<>>
             THEN /\ results' = Append(results, n)
                  /\ current_k' = 0
                  /\ found_k' = found_k
             ELSE \E order \in ScanOrders(obs, n) : \E by_tuple \in BOOLEAN :
                  LET m == Len(obs)
                      elem_to_mask == ElemToMask(obs, n)
                      answer == [k \in SearchStart(current_k)..n |->
                                    solve_scan(order, by_tuple, elem_to_mask, Pow2(m) - 1, k)]
                      k == FirstFeasible(answer, SearchStart(current_k), n)
                  IN /\ found_k' = k
                     /\ IF k # NoneK
                        THEN /\ current_k' = k
                             /\ results' = Append(results, Emitted(n, k))
                        ELSE /\ results' = Append(results, 0)
                             /\ current_k' = n
    /\ n' = n + 1
    /\ UNCHANGED <<pc, N, left_list, right_list, i, j, matches, buckets, args, ret>>

\* Direct calls of the solver in every order, and runs of A390393List in
\* which every pass may follow another order.
InitScanAny == InitScan \/ InitProgram

NextScan ==
    \/ CallExistsHittingSetScan
    \/ ReturnEmpty
    \/ BuildHalfLists
    \/ JoinStep
    \/ JoinExit
    \/ LoopStepScan
    \/ LoopExit

SpecScan == InitScanAny /\ [][NextScan]_vars

\* The list that the program itself (Spec) builds for the bound N, cut to
\* the passes made so far: with k found by the solver of A390393List.
RECURSIVE ReferenceRun(_, _, _, _)
ReferenceRun(nn, upto, obs0, k0) ==
    IF nn > upto THEN <<>>
    ELSE LET obs == IF nn \in DOMAIN buckets THEN obs0 \o buckets[nn] ELSE obs0
         IN IF obs = <<>>
            THEN <<nn>> \o ReferenceRun(nn + 1, upto, obs, 0)
            ELSE LET elem_to_mask == ElemToMask(obs, nn)
                     answer == [k \in k0..nn |-> exists_hitting_set(elem_to_mask, Len(obs), k)]
                     k == FirstFeasible(answer, k0, nn)
                 IN IF k # NoneK
                    THEN <<nn - k>> \o ReferenceRun(nn + 1, upto, obs, k)
                    ELSE <<0>> \o ReferenceRun(nn + 1, upto, obs, nn)

\* C12: the value returned by exists_hitting_set is the same for every
\* iteration order of elem_to_mask in the candidate scan and for every order
\* in which candidates of equal coverage are tried: it is the value returned
\* with the keys visited in ascending order and the sort of the source, and
\* the value of the solver of A390393List.  Hence every run of A390393List
\* with the same N builds the same list, whichever orders its passes follow.
C12_OrderIndependent ==
    /\ pc = "returned" =>
          /\ ret = solve_scan(Ascending(DOMAIN args.elem_to_mask), TRUE,
                              args.elem_to_mask, Pow2(args.num_obs) - 1, args.permitted)
          /\ ret = exists_hitting_set(args.elem_to_mask, args.num_obs, args.permitted)
    /\ pc = "loop" => results = ReferenceRun(1, n - 1, <<>>, 0)
    /\ (pc = "done" /\ N >= 2) => results = ReferenceRun(1, N - 1, <<>>, 0)

\* A feasible call that scans the keys in another order than ascending,
\* finds candidates of equal coverage and different masks, and tries them in
\* the order of the scan, which is not the order of the source's sort.
C12_Witness ==
    /\ pc = "returned"
    /\ ret = TRUE
    /\ args.permitted >= 2
    /\ ~args.by_tuple
    /\ args.order # Ascending(DOMAIN args.elem_to_mask)
    /\ LET scanned == ScanCandidates(args.order, args.elem_to_mask, Pow2(args.num_obs) - 1)
       IN SortCandidates(scanned, FALSE) # SortCandidates(scanned, TRUE)

\* ------------------------------------------------------------------
\* Claims about the main loop of A390393List, under Spec

\* current_obs_masks after "if n in buckets: current_obs_masks.extend(buckets[n])"
\* in the pass about to be made.
ActiveAtEntry ==
    IF n \in DOMAIN buckets THEN current_obs_masks \o buckets[n] ELSE current_obs_masks

\* C13: on entry to every search current_k <= n and, when an obstruction is
\* active, exists_hitting_set succeeds for some k in [current_k, n]; after
\* every pass with an active obstruction found_k is not None, so the branch
\* "found_k is None" (append 0, current_k = n) is never taken.
C13_SearchNeverFails ==
    /\ (pc = "loop" /\ InRange(n, N)) =>
          /\ current_k <= n
          /\ ActiveAtEntry # <<>> =>
                \E k \in current_k..n :
                    exists_hitting_set(ElemToMask(ActiveAtEntry, n), Len(ActiveAtEntry), k)
    /\ (pc \in {"loop", "done"} /\ n > 1 /\ current_obs_masks # <<>>) =>
          /\ found_k # NoneK
          /\ found_k = current_k
          /\ found_k <= n - 1

\* A pass with several active obstructions whose search succeeded with a
\* hitting set of two or more elements, and another pass to come.
C13_Witness ==
    /\ pc = "loop"
    /\ InRange(n, N)
    /\ Len(current_obs_masks) >= 2
    /\ found_k >= 2

\* The matches whose max_denom is at most nn (as indices into matches).
ActivatedUpTo(nn) == {x \in 1..Len(matches) : matches[x].max_denom <= nn}

\* obs holds each obstruction with max_denom <= nn once, and nothing else.
HoldsExactly(obs, nn) ==
    /\ Len(obs) = Cardinality(ActivatedUpTo(nn))
    /\ \A x \in ActivatedUpTo(nn) :
          Cardinality({y \in 1..Len(obs) : obs[y] = matches[x].mask}) = 1

\* Denominator d is a member of the obstruction mask: bit d - 1 is set.
IsMember(d, mask) == (mask \div Pow2(d - 1)) % 2 = 1

\* C14: at the start of the solve step for n, current_obs_masks holds exactly
\* the obstructions with max_denom <= n, each once (and so it still does
\* after the pass); every denominator of an active obstruction is <= n, so
\* "denom <= n" excludes no member; and in the rebuilt elem_to_mask bit idx is
\* set for denominator d exactly when d is a member of current_obs_masks[idx].
C14_ActiveObstructions ==
    /\ (pc = "loop" /\ InRange(n, N)) =>
          LET obs == ActiveAtEntry
              elem_to_mask == ElemToMask(obs, n)
          IN /\ HoldsExactly(obs, n)
             /\ \A x \in 1..Len(obs) : \A d \in 1..N :
                   IsMember(d, obs[x]) => (d <= n /\ d \in DOMAIN elem_to_mask)
             /\ \A d \in DOMAIN elem_to_mask :
                   /\ d \in 1..n
                   /\ elem_to_mask[d] \in 1..(Pow2(Len(obs)) - 1)
             /\ \A d \in 1..N : \A idx \in 0..(Len(obs) - 1) :
                   (d \in DOMAIN elem_to_mask /\ (elem_to_mask[d] \div Pow2(idx)) % 2 = 1)
                       <=> IsMember(d, obs[idx + 1])
    /\ (pc \in {"loop", "done"} /\ n > 1) => HoldsExactly(current_obs_masks, n - 1)

\* A pass that appends new obstructions to older ones that stay.
C14_Witness ==
    /\ pc = "loop"
    /\ InRange(n, N)
    /\ n \in DOMAIN buckets
    /\ Len(current_obs_masks) >= 2
    /\ Len(ActiveAtEntry) >= Len(current_obs_masks) + 2

\* ------------------------------------------------------------------
\* exists_hitting_set run step by step, with the memo table of lru_cache
\*
\* args holds the arguments of the call and its local state: cache is the
\* table of the decorated solve, a set of entries <<remaining_mask, k, b>>;
\* stack holds one frame per active call of solve, the innermost last, with
\* the sorted candidates of the frame and the position "at" of the candidate
\* whose recursive call is under way (0: the call has not been entered);
\* returning is <<b>> while a call of solve hands b to its caller.

\* Mutant of NewCache: the table of the previous call is kept.
NewCacheKept(old) == old

\* "@lru_cache(maxsize=None) def solve": each execution of the def statement
\* decorates a new function with a table of its own, which is empty.
NewCache(old) == {}

Frame(remaining_mask, k) == [mask |-> remaining_mask, k |-> k, cands |-> <<>>, at |-> 0]

Cached(cache, remaining_mask, k) == \E e \in cache : e[1] = remaining_mask /\ e[2] = k

CacheValue(cache, remaining_mask, k) ==
    (CHOOSE e \in cache : e[1] = remaining_mask /\ e[2] = k)[3]

\* The instances a call is made on.
MemoInstances ==
    UNION {UNION {{[elem_to_mask |-> f, num_obs |-> num_obs, permitted |-> permitted] :
                      f \in [1..elems -> 0..(Pow2(num_obs) - 1)], permitted \in 0..MaxMemoBudget} :
                  elems \in 0..(MaxMemoSize - num_obs)} :
           num_obs \in 0..MaxMemoSize}

\* "full_mask = (1 << num_obs) - 1", the def of solve, and the call
\* solve(full_mask, permitted) about to be entered.
StartCall(inst, old_cache) ==
    [elem_to_mask |-> inst.elem_to_mask, num_obs |-> inst.num_obs, permitted |-> inst.permitted,
     cache |-> NewCache(old_cache),
     stack |-> <<Frame(Pow2(inst.num_obs) - 1, inst.permitted)>>,
     returning |-> <<>>]

InitMemo ==
    /\ pc = "call_memo"
    /\ \E inst \in MemoInstances :
          args = [elem_to_mask |-> inst.elem_to_mask, num_obs |-> inst.num_obs,
                  permitted |-> inst.permitted, cache |-> {}, stack |-> <<>>, returning |-> <<>>]
    /\ ret = Idle
    /\ Quiet

\* exists_hitting_set is entered.
MemoCall ==
    /\ pc = "call_memo"
    /\ args' = StartCall(args, args.cache)
    /\ pc' = "solving"
    /\ UNCHANGED <<N, left_list, right_list, i, j, matches, buckets, n,
                   current_obs_masks, current_k, results, found_k, ret>>

\* The innermost call of solve is entered: a table hit returns the entry;
\* otherwise the body runs up to its first return or its first recursive call.
MemoEnter ==
    /\ pc = "solving"
    /\ args.returning = <<>>
    /\ args.stack # <<>>
    /\ LET depth == Len(args.stack)
           f == args.stack[depth]
           below == SubSeq(args.stack, 1, depth - 1)
           candidates == Candidates(args.elem_to_mask, f.mask)
           max_cov == MaxCov(candidates)
           decided == f.mask = 0 \/ f.k = 0 \/ max_cov = 0
                          \/ Pruned(bit_count(f.mask), max_cov, f.k)
           value == (f.mask = 0)
       IN /\ f.at = 0
          /\ IF Cached(args.cache, f.mask, f.k)
             THEN args' = [args EXCEPT !.stack = below,
                                       !.returning = <<CacheValue(args.cache, f.mask, f.k)>>]
             ELSE IF decided
             THEN args' = [args EXCEPT !.stack = below,
                                       !.returning = <<value>>,
                                       !.cache = @ \cup {<<f.mask, f.k, value>>}]
             ELSE args' = [args EXCEPT
                              !.stack = Append(Append(below, [f EXCEPT !.cands = candidates, !.at = 1]),
                                               Frame(BitAndNot(f.mask, candidates[1][2]), f.k - 1))]
    /\ UNCHANGED <<pc, N, left_list, right_list, i, j, matches, buckets, n,
                   current_obs_masks, current_k, results, found_k, ret>>

\* A recursive call has returned into "for _, covmask in candidates: if
\* solve(...): return True": return True, go on to the next candidate, or
\* "return False" after the last one.
MemoResume ==
    /\ pc = "solving"
    /\ args.returning # <<>>
    /\ args.stack # <<>>
    /\ LET depth == Len(args.stack)
           f == args.stack[depth]
           below == SubSeq(args.stack, 1, depth - 1)
       IN IF args.returning[1]
          THEN args' = [args EXCEPT !.stack = below,
                                    !.cache = @ \cup {<<f.mask, f.k, TRUE>>}]
          ELSE IF f.at < Len(f.cands)
          THEN args' = [args EXCEPT
                           !.returning = <<>>,
                           !.stack = Append(Append(below, [f EXCEPT !.at = f.at + 1]),
                                            Frame(BitAndNot(f.mask, f.cands[f.at + 1][2]), f.k - 1))]
          ELSE args' = [args EXCEPT !.stack = below,
                                    !.cache = @ \cup {<<f.mask, f.k, FALSE>>}]
    /\ UNCHANGED <<pc, N, left_list, right_list, i, j, matches, buckets, n,
                   current_obs_masks, current_k, results, found_k, ret>>

\* "return solve(full_mask, permitted)"
MemoReturn ==
    /\ pc = "solving"
    /\ args.returning # <<>>
    /\ args.stack = <<>>
    /\ ret' = args.returning[1]
    /\ pc' = "returned"
    /\ UNCHANGED <<N, left_list, right_list, i, j, matches, buckets, n,
                   current_obs_masks, current_k, results, found_k, args>>

\* The caller's next call, as "for k in range(current_k, n + 1): if
\* exists_hitting_set(elem_to_mask, m, k)" makes it: after False the same
\* instance with k + 1; after True (found_k = current_k = k) the call of a
\* later pass, with the same k and another elem_to_mask, here any one.
MemoNextCall ==
    /\ pc = "returned"
    /\ IF ret
       THEN \E inst \in MemoInstances :
                /\ inst.permitted = args.permitted
                /\ args' = StartCall(inst, args.cache)
       ELSE /\ args.permitted < MaxMemoBudget
            /\ args' = StartCall([elem_to_mask |-> args.elem_to_mask, num_obs |-> args.num_obs,
                                  permitted |-> args.permitted + 1], args.cache)
    /\ ret' = Idle
    /\ pc' = "solving"
    /\ UNCHANGED <<N, left_list, right_list, i, j, matches, buckets, n,
                   current_obs_masks, current_k, results, found_k>>

NextMemo ==
    \/ MemoCall
    \/ MemoEnter
    \/ MemoResume
    \/ MemoReturn
    \/ MemoNextCall

SpecMemo == InitMemo /\ [][NextMemo]_vars

\* Some set of at most k elements covers every bit of remaining_mask.
CanClear(elem_to_mask, remaining_mask, k) ==
    \E H \in SUBSET (DOMAIN elem_to_mask) :
        /\ Cardinality(H) <= k
        /\ \A b \in 0..(bit_length(remaining_mask) - 1) :
              (remaining_mask \div Pow2(b)) % 2 = 1 =>
                  \E e \in H : (elem_to_mask[e] \div Pow2(b)) % 2 = 1

\* solve(full_mask, permitted) is about to be entered.
AtCallStart ==
    /\ pc = "solving"
    /\ Len(args.stack) = 1
    /\ args.stack[1].at = 0
    /\ args.returning = <<>>

\* C15: every call of exists_hitting_set starts with an empty memo table,
\* and at every point of a call each entry (remaining_mask, k) -> b of the
\* table is the true answer for the elem_to_mask of that call: b holds
\* exactly when at most k elements clear remaining_mask.  So the entry a hit
\* reads was computed in the same call, and the value returned is right.
C15_MemoPerCall ==
    /\ AtCallStart => args.cache = {}
    /\ pc \in {"solving", "returned"} =>
          \A e \in args.cache :
              /\ e[3] = CanClear(args.elem_to_mask, e[1], e[2])
              /\ \A e2 \in args.cache : (e2[1] = e[1] /\ e2[2] = e[2]) => e2 = e
    /\ pc = "returned" =>
          ret = CanClear(args.elem_to_mask, Pow2(args.num_obs) - 1, args.permitted)

\* A call of solve that is answered from the table.
C15_Witness ==
    /\ pc = "solving"
    /\ args.returning = <<>>
    /\ args.stack # <<>>
    /\ args.stack[Len(args.stack)].at = 0
    /\ Cached(args.cache, args.stack[Len(args.stack)].mask, args.stack[Len(args.stack)].k)

\* ------------------------------------------------------------------
\* The lower-bound prune of solve, under SpecSolver

\* solve with "if math.ceil(rem / max_cov) > k: return False" removed.
RECURSIVE solve_unpruned(_, _, _)
solve_unpruned(elem_to_mask, remaining_mask, k) ==
    IF remaining_mask = 0 THEN TRUE
    ELSE IF k = 0 THEN FALSE
    ELSE LET candidates == Candidates(elem_to_mask, remaining_mask)
             max_cov == MaxCov(candidates)
         IN IF max_cov = 0 THEN FALSE
            ELSE \E x \in 1..Len(candidates) :
                    solve_unpruned(elem_to_mask, BitAndNot(remaining_mask, candidates[x][2]), k - 1)

\* The prune fires in solve(remaining_mask, k): the line is reached
\* (remaining_mask != 0, k != 0, max_cov != 0) and its test holds.
PruneFires(elem_to_mask, remaining_mask, k) ==
    LET max_cov == MaxCov(Candidates(elem_to_mask, remaining_mask))
    IN /\ remaining_mask # 0
       /\ k >= 1
       /\ max_cov # 0
       /\ Pruned(bit_count(remaining_mask), max_cov, k)

\* C16: whenever the prune fires for a remaining_mask != 0 and a k >= 1 (k
\* being the budget of the call, every mask over its obstructions being
\* tried), no set of at most k elements clears remaining_mask; and the solver
\* with the prune removed returns what the solver returns.
C16_PruneAdmissible ==
    pc = "returned" =>
        /\ \A remaining_mask \in 1..(Pow2(args.num_obs) - 1) :
              PruneFires(args.elem_to_mask, remaining_mask, args.permitted) =>
                  ~CanClear(args.elem_to_mask, remaining_mask, args.permitted)
        /\ ret = solve_unpruned(args.elem_to_mask, Pow2(args.num_obs) - 1, args.permitted)

\* A call cut off by the prune at the top, with candidates and a budget of
\* two or more, and with every obstruction covered by some element.
C16_Witness ==
    /\ pc = "returned"
    /\ args.permitted >= 2
    /\ PruneFires(args.elem_to_mask, Pow2(args.num_obs) - 1, args.permitted)
    /\ CanClear(args.elem_to_mask, Pow2(args.num_obs) - 1, args.permitted + 1)

\* ------------------------------------------------------------------
\* stream_unit_matches called directly on two lists in any order

\* Values of the entries; 1/2 occurs in two forms.
AnyVals == {<<0, 1>>, <<1, 2>>, <<2, 4>>, <<1, 1>>}

\* The lists of at most MaxAnyLen values, sorted or not.
AnyValueLists == UNION {[1..len -> AnyVals] : len \in 0..MaxAnyLen}

InitJoinAny ==
    /\ pc = "join"
    /\ N = 0
    /\ \E s \in AnyValueLists : left_list = EntriesOf(s, 0)
    /\ \E s \in AnyValueLists : right_list = EntriesOf(s, MaxAnyLen)
    /\ i = 0
    /\ j = Len(right_list) - 1
    /\ matches = <<>>
    /\ buckets = <<>>
    /\ n = 0
    /\ current_obs_masks = <<>>
    /\ current_k = 0
    /\ results = <<>>
    /\ found_k = NoneK
    /\ args = Idle
    /\ ret = Idle

SpecJoinAny == InitJoinAny /\ [][NextJoin]_vars

\* The entries still ahead of the two pointers.
JoinDistance == (Len(left_list) - i) + (j + 1)

\* One pass of the outer loop: i and j stay in range, i does not decrease
\* and j does not increase, one of them moves, and both move on a match.
JoinPassMoves ==
    (pc = "join" /\ pc' = "join") =>
        /\ i' >= i /\ i' <= Len(left_list)
        /\ j' <= j /\ j' >= -1
        /\ i' > i \/ j' < j
        /\ JoinDistance' < JoinDistance
        /\ JoinLhs(left_list[i + 1], right_list[j + 1]) = JoinRhs(left_list[i + 1], right_list[j + 1])
              => (i' > i /\ j' < j)

\* The loop is left exactly when i has reached len(left_list) or j is below 0.
JoinLeaves ==
    (pc = "join" /\ pc' # "join") =>
        /\ i = Len(left_list) \/ j = -1
        /\ i' = i /\ j' = j

\* C17: on every pair of finite lists each pass of the outer loop of
\* stream_unit_matches strictly increases i or strictly decreases j (both on
\* a match), and the loop is left once i = len(left_list) or j < 0.  The
\* number of entries ahead of the pointers falls with every pass and is
\* never negative, so the loop makes at most len(left_list) +
\* len(right_list) passes.
C17_JoinTerminates ==
    /\ [][JoinPassMoves /\ JoinLeaves]_vars
    /\ [](pc = "join" => (JoinDistance >= 0 /\ JoinDistance <= Len(left_list) + Len(right_list)))
    /\ []((pc = "join" /\ JoinDistance = 0) => ENABLED JoinExit)

\* After a match on runs of two equal values on both sides (four matches
\* yielded), entries remain on both sides and the loop goes on.
C17_Witness ==
    /\ pc = "join"
    /\ N = 0
    /\ Len(matches) = 4
    /\ i = 2
    /\ i < Len(left_list)
    /\ j = Len(right_list) - 3
    /\ j >= 0

\* ------------------------------------------------------------------
\* A390393List with "split = N * 5 // 9" replaced by any split in 1..N

InitSplit ==
    /\ InitProgram
    /\ N <= MaxSplitN

\* The two half lists for a split s: left [1, s), right [s, N).  args
\* records the split taken.
BuildHalfListsAt ==
    /\ pc = "start"
    /\ N > 1
    /\ \E split \in 1..N :
          /\ left_list' = build_half_list(1, split)
          /\ right_list' = build_half_list(RightLo(split), N)
          /\ args' = [split |-> split]
    /\ i' = 0
    /\ j' = Len(right_list') - 1
    /\ pc' = "join"
    /\ UNCHANGED <<N, matches, buckets, n, current_obs_masks, current_k,
                   results, found_k, ret>>

NextSplit ==
    \/ ReturnEmpty
    \/ BuildHalfListsAt
    \/ JoinStep
    \/ JoinExit
    \/ LoopStep
    \/ LoopExit

SpecSplit == InitSplit /\ [][NextSplit]_vars

\* C18: whatever split s in 1..N is taken (N * 5 // 9 is one of them), the
\* obstructions yielded are the same multiset, one Match for each subset of
\* 1..N-1 whose reciprocals sum to 1 with the largest member as max_denom,
\* and the list built is the same, a(x) = x - (least size of a set meeting
\* every unit subset of 1..x).
C18_SplitIndependent ==
    /\ ((pc = "loop" /\ n = 1) \/ (pc = "done" /\ N >= 2)) =>
          /\ Len(matches) = Cardinality(UnitSubsets(N - 1))
          /\ \A S \in UnitSubsets(N - 1) :
                Cardinality({x \in 1..Len(matches) :
                                matches[x] = [mask |-> MaskOf(S), max_denom |-> MaxOf(S)]}) = 1
    /\ (pc = "loop" /\ n > 1) =>
          /\ Len(results) = n - 1
          /\ results[n - 1] = (n - 1) - MinHittingSize(n - 1)
    /\ (pc = "done" /\ N >= 2) =>
          /\ Len(results) = N - 1
          /\ \A x \in 1..Len(results) : results[x] = x - MinHittingSize(x)

\* A finished run whose split is far from N * 5 // 9: every denominator is
\* in the left half and the right list holds the empty subset alone.
C18_Witness ==
    /\ pc = "done"
    /\ N >= 7
    /\ args.split = N
    /\ Len(right_list) = 1
    /\ Len(matches) >= 2

\* ------------------------------------------------------------------
\* The steps of current_k and of the output, under Spec

\* One pass of the main loop: current_k stays or grows by 1, and from the
\* second pass on the value appended is the previous one or that plus 1.
PassIsUnitStep ==
    (pc = "loop" /\ pc' = "loop") =>
        /\ current_k' \in {current_k, current_k + 1}
        /\ Len(results') = Len(results) + 1
        /\ n >= 2 => results'[n] \in {results[n - 1], results[n - 1] + 1}

\* C19: with every pass of the main loop current_k stays or grows by 1, so
\* the output has a(x) <= a(x + 1) <= a(x) + 1 for every x in 1..N-2.
C19_UnitSteps ==
    /\ [][PassIsUnitStep]_vars
    /\ [](pc \in {"loop", "done"} =>
            \A x \in 1..(Len(results) - 1) :
                results[x] <= results[x + 1] /\ results[x + 1] <= results[x] + 1)

\* The pass for n = 6 has just raised k from 1 to 2 and repeated the value
\* 4, after passes that kept k and raised the value.
C19_Witness ==
    /\ pc = "loop"
    /\ n = 7
    /\ found_k = 2
    /\ results[5] = results[4] + 1
    /\ results[6] = results[5]

\* ------------------------------------------------------------------
\* The obstruction {1}, under Spec

\* C20: for every N >= 2 the subset {1} is yielded as Match(mask 1,
\* max_denom 1), once, and is the only obstruction of bucket 1; so the list
\* of active obstructions is non-empty in every pass from n = 1 on, the
\* branch "not current_obs_masks" is not taken, and a(1) = 0.
C20_UnitObstruction ==
    /\ (pc \in {"loop", "done"} /\ N >= 2) =>
          /\ Cardinality({x \in 1..Len(matches) : matches[x] = Match(1, 1)}) = 1
          /\ 1 \in DOMAIN buckets
          /\ buckets[1] = <<1>>
    /\ (pc = "loop" /\ InRange(n, N)) => ActiveAtEntry # <<>>
    /\ (pc \in {"loop", "done"} /\ n > 1) =>
          /\ current_obs_masks # <<>>
          /\ current_obs_masks[1] = 1
          /\ results[1] = 0
          /\ found_k # NoneK

\* After the pass for n = 1 of a run whose left half holds denominator 1
\* (for N = 2 and 3 the right half holds it).
C20_Witness ==
    /\ pc = "loop"
    /\ n = 2
    /\ Split(N) >= 2
    /\ results = <<0>>
    /\ current_obs_masks = <<1>>
    /\ current_k = 1

====
